---- MODULE Spec2Model ----
(***************************************************************************)
(* A model of blockchain.c: a proof-of-work blockchain simulated in one    *)
(* process.  Every node owns a chain (a linked list of blocks plus one     *)
(* staging block), miners run in worker threads, mined blocks are          *)
(* broadcast to the peers, and a restarted node copies the longest chain.  *)
(*                                                                         *)
(* Threads of the model: the driver (main and the functions it calls) and  *)
(* one worker per node (node_thread).  Every critical section that holds   *)
(* one chain lock, and every function that holds nodes_lock from its first *)
(* to its last access (broadcast_block, synchronize_blockchain), is one    *)
(* atomic step: it waits for no other thread while it holds its lock, so a *)
(* state where the lock is held is never observed by another thread.  In   *)
(* every state of the model all locks are therefore free.                  *)
(*                                                                         *)
(* Digests: hash_data is djb2 over the bytes, printed as 16 hex digits     *)
(* and padded with '0' to 64 characters.  The model keeps the leading two  *)
(* digits (those the proof of work reads) as a djb2 fold over the input's  *)
(* codes at a reduced width, and the rest of the string as the input       *)
(* itself, so two digests are equal exactly when their inputs are.         *)
(***************************************************************************)
EXTENDS Integers, Sequences, FiniteSets, TLC

\* ---------------------------------------------------------------- bounds
\* MAX_NODES (10 in the source), scaled down.
MAX_NODES == 3
\* The driver of the specification Spec creates at most this many nodes.
MainNodes == 2
\* MAX_EVENTS (100 in the source), scaled down.
MAX_EVENTS == 1
\* The initial event capacity of create_block (10 in the source), scaled down.
INIT_CAPACITY == 1
\* No chain grows past this block_count.
MaxBlocks == 3
\* The driver makes at most this many calls after it created the nodes.
MaxCalls == 2
\* The same two bounds of the specification SpecFork.
ForkBlocks == 4
ForkCalls == 7
\* MAX_EVENTS of the specification SpecEvents, where add_event is applied to
\* one block.
EventsMax == 5
\* The driver's calls in the specification SpecProgress.
ProgressCalls == 3
\* time(NULL) runs from 0 to MaxClock.
MaxClock == 1
\* The base of one digest digit (16 in the source), scaled down.
HexBase == 4

\* ------------------------------------------------------ program constants
DIFFICULTY == 2
\* mine_block yields, may take its lucky exit and polls shutdown_requested
\* every YieldEvery nonces.
YieldEvery == 10
\* The djb2 seed.
Djb2Seed == 5381

\* The event types of the source: 1 = financial transaction, 2 = other.
EventTypes == {1, 2}
\* Payloads an append may carry (codes of opaque strings), and the payload
\* tamper_with_blockchain writes.
Payloads == {1}
FraudPayload == 9

\* ---------------------------------------------------------------- digests
HashMod == HexBase * HexBase

RECURSIVE djb2(_, _)
djb2(h, codes) ==
    IF codes = <<>> THEN h
    ELSE djb2((h * 33 + Head(codes)) % HashMod, Tail(codes))

\* The digest of an input: its two leading digits and the rest of the string.
hash_data(codes, input) ==
    LET v == djb2(Djb2Seed % HashMod, codes)
    IN  [digits |-> <<v \div HexBase, v % HexBase>>, src |-> input]

\* The code of a digest when it is part of a longer input.
CodeOf(h) == h.digits[1] * HexBase + h.digits[2] + Len(h.src)

\* "0" x HASH_SIZE: the Merkle root of an empty block and genesis' previous_hash.
ZeroHash == [digits |-> <<0, 0>>, src |-> <<>>]
\* The content of a hash or merkle_root field that create_block left unset.
Uninit == [digits |-> <<1, 1>>, src |-> <<0>>]

hash_event(e) ==
    hash_data(<<e.type, e.data, e.timestamp>>, <<e.type, e.data, e.timestamp>>)

\* ------------------------------------------------------------ Merkle tree
Nil == [digits |-> <<>>, src |-> <<>>]

RECURSIVE build_tree_right_first(_, _, _)
\* A tree whose parents hash the right child before the left one.
build_tree_right_first(hashes, start, end) ==
    IF start > end THEN Nil
    ELSE IF start = end THEN hashes[start]
    ELSE LET mid   == (start + end) \div 2
             left  == build_tree_right_first(hashes, start, mid)
             right0 == build_tree_right_first(hashes, mid + 1, end)
             right == IF right0 = Nil THEN left ELSE right0
         IN  hash_data(<<CodeOf(right), CodeOf(left)>>, <<right, left>>)

RECURSIVE build_tree(_, _, _)
build_tree(hashes, start, end) ==
    IF start > end THEN Nil
    ELSE IF start = end THEN hashes[start]
    ELSE LET mid   == (start + end) \div 2
             left  == build_tree(hashes, start, mid)
             right0 == build_tree(hashes, mid + 1, end)
             right == IF right0 = Nil THEN left ELSE right0
         IN  hash_data(<<CodeOf(left), CodeOf(right)>>, <<left, right>>)

calculate_merkle_root(b) ==
    IF Len(b.events) = 0 THEN ZeroHash
    ELSE build_tree([i \in 1..Len(b.events) |-> b.events[i].hash], 1, Len(b.events))

\* ------------------------------------------------------------------ blocks
hash_block(b) ==
    hash_data(<<b.index, b.timestamp, CodeOf(b.previous_hash),
                CodeOf(b.merkle_root), b.nonce>>,
              <<b.index, b.timestamp, b.previous_hash, b.merkle_root, b.nonce>>)

create_block(index, prev_hash, now) ==
    [index |-> index, timestamp |-> now, previous_hash |-> prev_hash,
     events |-> <<>>, event_capacity |-> INIT_CAPACITY, nonce |-> 0,
     merkle_root |-> Uninit, hash |-> Uninit]

\* A deep copy; the next link is not part of a block's record.
clone_block(b) == b

is_valid_proof(b, difficulty) ==
    \A i \in 1..difficulty : b.hash.digits[i] = 0

validate_event(e) == TRUE

validate_block_events(b) ==
    \A i \in 1..Len(b.events) : validate_event(b.events[i])

\* A block whose event buffer doubles without the cap at max_events.
add_event_upto_uncapped(max_events, b, type, data, now) ==
    IF Len(b.events) >= max_events THEN [ok |-> FALSE, blk |-> b]
    ELSE LET cap == IF Len(b.events) >= b.event_capacity
                    THEN b.event_capacity * 2
                    ELSE b.event_capacity
             e0  == [type |-> type, data |-> data, timestamp |-> now,
                     hash |-> Uninit, is_valid |-> TRUE]
             e   == [e0 EXCEPT !.hash = hash_event(e0),
                               !.is_valid = validate_event(e0)]
             b1  == [b EXCEPT !.events = Append(b.events, e),
                              !.event_capacity = cap]
             b2  == [b1 EXCEPT !.merkle_root = calculate_merkle_root(b1)]
         IN  [ok |-> TRUE, blk |-> [b2 EXCEPT !.hash = hash_block(b2)]]

\* add_event with the macro MAX_EVENTS as max_events: [ok, blk]; ok = FALSE is
\* the source's return value 0.
add_event_upto(max_events, b, type, data, now) ==
    IF Len(b.events) >= max_events THEN [ok |-> FALSE, blk |-> b]
    ELSE LET cap == IF Len(b.events) >= b.event_capacity
                    THEN (IF b.event_capacity * 2 > max_events
                          THEN max_events ELSE b.event_capacity * 2)
                    ELSE b.event_capacity
             e0  == [type |-> type, data |-> data, timestamp |-> now,
                     hash |-> Uninit, is_valid |-> TRUE]
             e   == [e0 EXCEPT !.hash = hash_event(e0),
                               !.is_valid = validate_event(e0)]
             b1  == [b EXCEPT !.events = Append(b.events, e),
                              !.event_capacity = cap]
             b2  == [b1 EXCEPT !.merkle_root = calculate_merkle_root(b1)]
         IN  [ok |-> TRUE, blk |-> [b2 EXCEPT !.hash = hash_block(b2)]]

add_event(b, type, data, now) == add_event_upto(MAX_EVENTS, b, type, data, now)

\* ------------------------------------------------------------------ mining
Min(S) == CHOOSE x \in S : \A y \in S : x <= y

\* strncmp(hash, target, difficulty) <= 0 with target = "00fff...": the first
\* digit that differs from '0' decides, and no digit is below '0'.
strncmp_leq_target(h, difficulty) ==
    LET diff == {i \in 1..difficulty : h.digits[i] # 0}
    IN  diff = {} \/ h.digits[Min(diff)] < 0

\* mine_block up to its loop: nonce reset, Merkle root computed once.
mine_start(b) ==
    LET b1 == [b EXCEPT !.nonce = 0]
    IN  [b1 EXCEPT !.merkle_root = calculate_merkle_root(b1)]

HashAt(b, n) == hash_block([b EXCEPT !.nonce = n])

\* A miner whose lucky exit is drawn after every nonce, not every YieldEvery.
mine_chunk_draw_every_nonce(b, lucky, shutdown) ==
    LET n0 == b.nonce
    IN  IF strncmp_leq_target(HashAt(b, n0), DIFFICULTY)
        THEN [status |-> "found", blk |-> [b EXCEPT !.hash = HashAt(b, n0)]]
        ELSE IF lucky
        THEN [status |-> "found",
              blk |-> [b EXCEPT !.nonce = n0 + 1, !.hash = HashAt(b, n0 + 1)]]
        ELSE IF shutdown
        THEN [status |-> "failed", blk |-> [b EXCEPT !.nonce = n0 + 1]]
        ELSE [status |-> "more", blk |-> [b EXCEPT !.nonce = n0 + 1]]

\* A miner whose lucky exit returns without hashing the block again.
mine_chunk_lucky_stale(b, lucky, shutdown) ==
    LET n0    == b.nonce
        found == {n \in n0..(n0 + YieldEvery - 1) :
                    strncmp_leq_target(HashAt(b, n), DIFFICULTY)}
        atYield == [b EXCEPT !.nonce = n0 + YieldEvery,
                             !.hash = HashAt(b, n0 + YieldEvery - 1)]
    IN  IF found # {}
        THEN [status |-> "found",
              blk |-> [b EXCEPT !.nonce = Min(found), !.hash = HashAt(b, Min(found))]]
        ELSE IF lucky
        THEN [status |-> "found", blk |-> atYield]
        ELSE IF shutdown
        THEN [status |-> "failed", blk |-> atYield]
        ELSE [status |-> "more", blk |-> atYield]

\* A miner that never reads shutdown_requested.
mine_chunk_ignore_shutdown(b, lucky, shutdown) ==
    LET n0    == b.nonce
        found == {n \in n0..(n0 + YieldEvery - 1) :
                    strncmp_leq_target(HashAt(b, n), DIFFICULTY)}
        atYield == [b EXCEPT !.nonce = n0 + YieldEvery,
                             !.hash = HashAt(b, n0 + YieldEvery - 1)]
    IN  IF found # {}
        THEN [status |-> "found",
              blk |-> [b EXCEPT !.nonce = Min(found), !.hash = HashAt(b, Min(found))]]
        ELSE IF lucky
        THEN [status |-> "found", blk |-> [atYield EXCEPT !.hash = hash_block(atYield)]]
        ELSE [status |-> "more", blk |-> atYield]

\* mine_block's loop from one yield point (nonce a multiple of YieldEvery) to
\* the next: "found" (return true), "failed" (return false) or "more".
mine_chunk(b, lucky, shutdown) ==
    LET n0    == b.nonce
        found == {n \in n0..(n0 + YieldEvery - 1) :
                    strncmp_leq_target(HashAt(b, n), DIFFICULTY)}
        atYield == [b EXCEPT !.nonce = n0 + YieldEvery,
                             !.hash = HashAt(b, n0 + YieldEvery - 1)]
    IN  IF found # {}
        THEN [status |-> "found",
              blk |-> [b EXCEPT !.nonce = Min(found), !.hash = HashAt(b, Min(found))]]
        ELSE IF lucky
        THEN [status |-> "found", blk |-> [atYield EXCEPT !.hash = hash_block(atYield)]]
        ELSE IF shutdown
        THEN [status |-> "failed", blk |-> atYield]
        ELSE [status |-> "more", blk |-> atYield]

\* ------------------------------------------------------------------ chains
\* A chain: blocks is the list genesis, genesis->next, ... that a walk over
\* next visits; last is the position of last_block in it; mining is
\* current_mining_block, and mining_at the position in blocks of the block
\* that pointer points to, 0 when it points to a block that is not linked.
create_blockchain(now) ==
    LET g0 == create_block(0, ZeroHash, now)
        g1 == [g0 EXCEPT !.merkle_root = calculate_merkle_root(g0)]
        genesis == [g1 EXCEPT !.hash = hash_block(g1)]
    IN  [blocks |-> <<genesis>>, last |-> 1, block_count |-> 1,
         mining |-> create_block(1, genesis.hash, now), mining_at |-> 0]

\* blocks[pos]->next = b: b has no successor, so what followed pos is no longer
\* reachable from genesis.
SetNext(c, pos, b) ==
    [c EXCEPT !.blocks = Append(SubSeq(c.blocks, 1, pos), b)]

last_block(c) == c.blocks[c.last]

\* A confirm_block that links the staging block and installs no new one.
confirm_block_keep_staging(c, now) ==
    LET b1 == [c.mining EXCEPT !.merkle_root = calculate_merkle_root(c.mining)]
        new_block == [b1 EXCEPT !.hash = hash_block(b1)]
        c1 == SetNext(c, c.last, new_block)
    IN  [c1 EXCEPT !.last = c.last + 1,
                   !.block_count = c.block_count + 1,
                   !.mining = new_block,
                   !.mining_at = c.last + 1]

confirm_block(c, now) ==
    LET b1 == [c.mining EXCEPT !.merkle_root = calculate_merkle_root(c.mining)]
        new_block == [b1 EXCEPT !.hash = hash_block(b1)]
        c1 == SetNext(c, c.last, new_block)
    IN  [c1 EXCEPT !.last = c.last + 1,
                   !.block_count = c.block_count + 1,
                   !.mining = create_block(c.block_count + 1, new_block.hash, now),
                   !.mining_at = 0]

\* A link of the detached block that does not look at the tip.
link_detached_unchecked(c, old_block) ==
    [SetNext(c, c.last, old_block) EXCEPT !.last = c.last + 1,
                                          !.block_count = c.block_count + 1]

\* add_blockchain_event after mine_block returned true: the detached block is
\* linked iff the tip is still its parent.  The staging block is not touched.
link_detached(c, old_block) ==
    IF last_block(c).hash = old_block.previous_hash
    THEN [SetNext(c, c.last, old_block) EXCEPT !.last = c.last + 1,
                                               !.block_count = c.block_count + 1]
    ELSE c

\* node_thread after mine_block returned true, under the chain lock.
commit_ok(c, mining_block) == last_block(c).hash = mining_block.previous_hash

commit_mined(c, mining_block, now) ==
    IF commit_ok(c, mining_block)
    THEN [SetNext(c, c.last, mining_block) EXCEPT
             !.last = c.last + 1,
             !.block_count = c.block_count + 1,
             !.mining = create_block(c.block_count + 1, mining_block.hash, now),
             !.mining_at = 0]
    ELSE c

\* broadcast_block at one receiver, under the receiver's chain lock.
ParentPos(c, block) ==
    LET hits == {i \in 1..Len(c.blocks) : c.blocks[i].hash = block.previous_hash}
    IN  IF hits = {} THEN 0 ELSE Min(hits)

\* A receiver that does not compare the block's index with its block_count.
can_adopt_any_height(c, block) ==
    /\ is_valid_proof(block, DIFFICULTY)
    /\ validate_block_events(block)
    /\ ParentPos(c, block) # 0

\* A receiver that adopts a block of any height but its own.
can_adopt_other_height(c, block) ==
    /\ is_valid_proof(block, DIFFICULTY)
    /\ validate_block_events(block)
    /\ ParentPos(c, block) # 0
    /\ block.index + 1 # c.block_count

can_adopt(c, block) ==
    /\ is_valid_proof(block, DIFFICULTY)
    /\ validate_block_events(block)
    /\ ParentPos(c, block) # 0
    /\ block.index + 1 > c.block_count

\* A receiver that adopts a block and keeps its staging block.
broadcast_visit_keep_staging(c, block, now) ==
    IF can_adopt(c, block)
    THEN LET pos == ParentPos(c, block)
         IN  [SetNext(c, pos, clone_block(block)) EXCEPT
                 !.last = pos + 1,
                 !.block_count = block.index + 1]
    ELSE c

broadcast_visit(c, block, now) ==
    IF can_adopt(c, block)
    THEN LET new_block == clone_block(block)
             pos == ParentPos(c, block)
         IN  [SetNext(c, pos, new_block) EXCEPT
                 !.last = pos + 1,
                 !.block_count = block.index + 1,
                 !.mining = create_block(block.index + 1, new_block.hash, now),
                 !.mining_at = 0]
    ELSE c

\* A tamper routine that recomputes the block's merkle_root after the change.
tamper_chain_rehash(c) ==
    IF Len(c.blocks) < 2 THEN c
    ELSE LET current == c.blocks[2]
         IN  IF Len(current.events) > 0 /\ current.events[1].type = 1
             THEN LET e1 == [current.events[1] EXCEPT !.data = FraudPayload]
                      e2 == [e1 EXCEPT !.hash = hash_event(e1)]
                      b1 == [current EXCEPT !.events[1] = e2]
                  IN  [c EXCEPT !.blocks[2] =
                          [b1 EXCEPT !.merkle_root = calculate_merkle_root(b1)]]
             ELSE c

\* tamper_with_blockchain under the chain lock: the first event of
\* genesis->next, if it is a transaction; only the event's digest is redone.
tamper_chain(c) ==
    IF Len(c.blocks) < 2 THEN c
    ELSE LET current == c.blocks[2]
         IN  IF Len(current.events) > 0 /\ current.events[1].type = 1
             THEN LET e1 == [current.events[1] EXCEPT !.data = FraudPayload]
                      e2 == [e1 EXCEPT !.hash = hash_event(e1)]
                  IN  [c EXCEPT !.blocks[2].events[1] = e2]
             ELSE c

\* check_consensus's test of one chain: some block from genesis on has the
\* block's stored hash.
has_block(c, block) ==
    \E k \in 1..Len(c.blocks) : c.blocks[k].hash = block.hash

\* ------------------------------------------------------------------- state
VARIABLES
    clock,               \* time(NULL)
    node_count,          \* nodes[0 .. node_count-1] are registered
    nodes,               \* id -> [is_mining, is_malicious, is_active]
    chain,               \* id -> the node's Blockchain
    worker,              \* id -> the node's node_thread: [pc, blk, dangling]
    drv,                 \* the driver thread: [pc, node, blk, type, data,
                         \* chain_length_before]
    calls,               \* the calls the driver has made, for the bound on them
    shutdown_requested

vars == <<clock, node_count, nodes, chain, worker, drv, calls, shutdown_requested>>

Ids == 0..(MAX_NODES - 1)
Registered == {i \in Ids : i < node_count}

NoBlock == create_block(0, Uninit, 0)
NoChain == [blocks |-> <<>>, last |-> 0, block_count |-> 0, mining |-> NoBlock,
            mining_at |-> 0]
NoNode == [is_mining |-> FALSE, is_malicious |-> FALSE, is_active |-> FALSE]
\* pc: "off" (no thread), "loop", "mine", "mined", "bcast", "tamper", "done".
\* blk is the worker's mining_block; dangling: the block was freed under it.
NoWorker == [pc |-> "off", blk |-> NoBlock, dangling |-> FALSE]
NewWorker == [pc |-> "loop", blk |-> NoBlock, dangling |-> FALSE]
DrvIdle == [pc |-> "idle", node |-> 0, blk |-> NoBlock, type |-> 0, data |-> 0,
            chain_length_before |-> 0]

\* The (is_mining, is_malicious) pairs the test functions create nodes with.
NodeKinds == {<<TRUE, FALSE>>, <<FALSE, FALSE>>, <<TRUE, TRUE>>}

\* What a specification lets the environment do: the driver's number of calls,
\* the length of a chain, the event types appended, the draws of the miner's
\* lucky exit, the number of nodes created.
Limits == [calls |-> MaxCalls, blocks |-> MaxBlocks, types |-> EventTypes,
           lucky |-> BOOLEAN, nodes |-> MainNodes]

Init ==
    /\ clock = 0
    /\ node_count = 0
    /\ nodes = [i \in Ids |-> NoNode]
    /\ chain = [i \in Ids |-> NoChain]
    /\ worker = [i \in Ids |-> NoWorker]
    /\ drv = DrvIdle
    /\ calls = 0
    /\ shutdown_requested = FALSE

\* ------------------------------------------------------------- the driver
\* The driver's sleep(1), sleep(2), sleep(3): the only waits of the program
\* that last a second or more.
Tick(L) ==
    /\ drv.pc = "idle"
    /\ calls < L.calls
    /\ clock < MaxClock
    /\ clock' = clock + 1
    /\ calls' = calls + 1
    /\ UNCHANGED <<node_count, nodes, chain, worker, drv, shutdown_requested>>

create_blockchain_node(is_mining, is_malicious) ==
    /\ drv.pc = "idle"
    /\ node_count < MAX_NODES
    /\ node_count' = node_count + 1
    /\ nodes' = [nodes EXCEPT ![node_count] =
                    [is_mining |-> is_mining, is_malicious |-> is_malicious,
                     is_active |-> TRUE]]
    /\ chain' = [chain EXCEPT ![node_count] = create_blockchain(clock)]
    /\ worker' = [worker EXCEPT ![node_count] = NewWorker]
    /\ UNCHANGED <<clock, drv, calls, shutdown_requested>>

CreateNode(L) ==
    /\ node_count < L.nodes
    /\ \E k \in NodeKinds : create_blockchain_node(k[1], k[2])

\* add_blockchain_event up to its first unlock: the append, or, when the
\* staging block is full, its detachment and a new staging block.
add_blockchain_event(L, n, type, data) ==
    /\ drv.pc = "idle"
    /\ calls < L.calls
    /\ n \in Registered
    /\ LET r == add_event(chain[n].mining, type, data, clock)
       IN  IF r.ok
           THEN /\ chain' = [chain EXCEPT ![n].mining = r.blk]
                /\ drv' = drv
           ELSE /\ chain[n].block_count < L.blocks
                /\ chain' = [chain EXCEPT
                       ![n].mining = create_block(chain[n].block_count,
                                                  last_block(chain[n]).hash, clock),
                       ![n].mining_at = 0]
                /\ drv' = [drv EXCEPT !.pc = "bf_mine", !.node = n,
                                       !.blk = mine_start(chain[n].mining),
                                       !.type = type, !.data = data]
    /\ calls' = calls + 1
    /\ UNCHANGED <<clock, node_count, nodes, worker, shutdown_requested>>

AddEvent(L) ==
    \E n \in Ids, t \in L.types, d \in Payloads : add_blockchain_event(L, n, t, d)

\* mine_block(old_block) in add_blockchain_event, one yield interval a step.
DrvMine(L) ==
    /\ drv.pc = "bf_mine"
    /\ \E lucky \in L.lucky :
         LET r == mine_chunk(drv.blk, lucky, shutdown_requested)
         IN  drv' = [drv EXCEPT !.blk = IF r.status = "failed" THEN NoBlock ELSE r.blk,
                                !.pc = CASE r.status = "found" -> "bf_link"
                                         [] r.status = "failed" -> "bf_retry"
                                         [] OTHER -> "bf_mine"]
    /\ UNCHANGED <<clock, node_count, nodes, chain, worker, calls, shutdown_requested>>

\* Lines 499-514: the detached block is linked or freed.
DrvLink ==
    /\ drv.pc = "bf_link"
    /\ chain' = [chain EXCEPT ![drv.node] = link_detached(chain[drv.node], drv.blk)]
    /\ drv' = [drv EXCEPT !.pc = "bf_retry", !.blk = NoBlock]
    /\ UNCHANGED <<clock, node_count, nodes, worker, calls, shutdown_requested>>

\* Lines 521-525: the append is tried again on the current staging block.
DrvRetry ==
    /\ drv.pc = "bf_retry"
    /\ chain' = [chain EXCEPT ![drv.node].mining =
                    add_event(chain[drv.node].mining, drv.type, drv.data, clock).blk]
    /\ drv' = DrvIdle
    /\ UNCHANGED <<clock, node_count, nodes, worker, calls, shutdown_requested>>

Confirm(L) ==
    /\ drv.pc = "idle"
    /\ calls < L.calls
    /\ \E n \in Registered :
         /\ chain[n].block_count < L.blocks
         /\ chain' = [chain EXCEPT ![n] = confirm_block(chain[n], clock)]
    /\ calls' = calls + 1
    /\ UNCHANGED <<clock, node_count, nodes, worker, drv, shutdown_requested>>

\* broadcast_block: every registered active node but the sender is visited
\* once, under nodes_lock; the visits touch different chains.
Visited_inactive_too(sender_id) ==
    {i \in Registered : i # sender_id}

Visited(sender_id) ==
    {i \in Registered : i # sender_id /\ nodes[i].is_active}

broadcast_block(ch, block, sender_id, now) ==
    [i \in Ids |->
        IF i \in Visited(sender_id)
        THEN broadcast_visit(ch[i], block, now)
        ELSE ch[i]]

\* synchronize_blockchain: the first active peer with the greatest
\* block_count, or -1.
best_node(n) ==
    LET peers == {i \in Registered : nodes[i].is_active /\ i # n}
        best  == {i \in peers : /\ chain[i].block_count > 0
                                /\ \A j \in peers :
                                     \/ chain[j].block_count < chain[i].block_count
                                     \/ (chain[j].block_count = chain[i].block_count /\ i <= j)}
    IN  IF best = {} THEN -1 ELSE Min(best)

\* The chain synchronize_blockchain builds from the best node's: its blocks
\* cloned in order and counted, and a new staging block.
sync_chain(m, now) ==
    LET copies == [k \in 1..Len(m.blocks) |-> clone_block(m.blocks[k])]
    IN  [blocks |-> copies, last |-> Len(copies), block_count |-> Len(copies),
         mining |-> create_block(Len(copies), copies[Len(copies)].hash, now),
         mining_at |-> 0]

\* stop_node up to pthread_join.  The driver stops only nodes that are
\* active (joining a thread a second time is undefined).
StopNode(L) ==
    /\ drv.pc = "idle"
    /\ calls < L.calls
    /\ \E n \in Registered :
         /\ nodes[n].is_active
         /\ nodes' = [nodes EXCEPT ![n].is_active = FALSE]
         /\ drv' = [drv EXCEPT !.pc = "join", !.node = n]
    /\ calls' = calls + 1
    /\ UNCHANGED <<clock, node_count, chain, worker, shutdown_requested>>

\* pthread_join returns once the worker has returned.
DrvJoin ==
    /\ drv.pc = "join"
    /\ worker[drv.node].pc = "done"
    /\ worker' = [worker EXCEPT ![drv.node] = NoWorker]
    /\ drv' = DrvIdle
    /\ UNCHANGED <<clock, node_count, nodes, chain, calls, shutdown_requested>>

\* A start_node that restarts whatever node it is given.
may_restart_always(n) == TRUE

\* Line 803: only a node that is inactive is restarted.
may_restart(n) == ~nodes[n].is_active

\* start_node up to its unlock: an inactive node is activated and its thread
\* created; for an active node the call returns at once.
StartNode(L) ==
    /\ drv.pc = "idle"
    /\ calls < L.calls
    /\ \E n \in Registered :
         IF may_restart(n)
         THEN /\ nodes' = [nodes EXCEPT ![n].is_active = TRUE]
              /\ worker' = [worker EXCEPT ![n] = NewWorker]
              /\ drv' = [drv EXCEPT !.pc = "sync", !.node = n]
         ELSE UNCHANGED <<nodes, worker, drv>>
    /\ calls' = calls + 1
    /\ UNCHANGED <<clock, node_count, chain, shutdown_requested>>

\* start_node's call of synchronize_blockchain.  It frees the node's blocks:
\* the block its new worker linked and has yet to broadcast is freed with them.
DrvSync ==
    /\ drv.pc = "sync"
    /\ LET m == best_node(drv.node)
       IN  IF m = -1
           THEN UNCHANGED <<chain, worker>>
           ELSE /\ chain' = [chain EXCEPT ![drv.node] = sync_chain(chain[m], clock)]
                /\ worker' = [worker EXCEPT ![drv.node].dangling =
                                 (worker[drv.node].pc = "bcast")]
    /\ drv' = DrvIdle
    /\ UNCHANGED <<clock, node_count, nodes, calls, shutdown_requested>>

\* broadcast_block called by the driver with a block pointer it read from a
\* node's chain, as the tests read genesis->next and get_latest_block.
Rebroadcast(L) ==
    /\ drv.pc = "idle"
    /\ calls < L.calls
    /\ \E s \in Registered : \E pos \in {2, chain[s].last} :
         /\ pos <= Len(chain[s].blocks)
         /\ chain' = broadcast_block(chain, chain[s].blocks[pos], s, clock)
    /\ calls' = calls + 1
    /\ UNCHANGED <<clock, node_count, nodes, worker, drv, shutdown_requested>>

\* main sets shutdown_requested and from then on only joins and frees.
Shutdown ==
    /\ drv.pc = "idle"
    /\ ~shutdown_requested
    /\ shutdown_requested' = TRUE
    /\ drv' = [drv EXCEPT !.pc = "shutdown"]
    /\ UNCHANGED <<clock, node_count, nodes, chain, worker, calls>>

\* ------------------------------------------------------------ the workers
\* What follows the mining part of one loop iteration: the tamper draw of a
\* malicious node, then the sleep and the loop test.
AfterMining(n) ==
    [pc |-> IF nodes[n].is_malicious THEN "tamper" ELSE "loop",
     blk |-> NoBlock, dangling |-> FALSE]

\* The loop test, and for a miner the clone of the staging block.
W_Loop(L, n) ==
    /\ worker[n].pc = "loop"
    /\ IF shutdown_requested \/ ~nodes[n].is_active
       THEN worker' = [worker EXCEPT ![n] = [NoWorker EXCEPT !.pc = "done"]]
       ELSE /\ nodes[n].is_mining
            /\ chain[n].block_count < L.blocks
            /\ worker' = [worker EXCEPT ![n] =
                   [pc |-> "mine", blk |-> mine_start(clone_block(chain[n].mining)),
                    dangling |-> FALSE]]
    /\ UNCHANGED <<clock, node_count, nodes, chain, drv, calls, shutdown_requested>>

\* mine_block, one yield interval a step; when it returns true the worker
\* reads is_active (line 693) and goes on to lock the chain, or frees the block.
W_Mine(L, n) ==
    /\ worker[n].pc = "mine"
    /\ \E lucky \in L.lucky :
         LET r == mine_chunk(worker[n].blk, lucky, shutdown_requested)
         IN  worker' = [worker EXCEPT ![n] =
                 CASE r.status = "found"  ->
                          IF nodes[n].is_active
                          THEN [pc |-> "mined", blk |-> r.blk, dangling |-> FALSE]
                          ELSE AfterMining(n)
                   [] r.status = "failed" -> AfterMining(n)
                   [] OTHER               -> [pc |-> "mine", blk |-> r.blk,
                                              dangling |-> FALSE]]
    /\ UNCHANGED <<clock, node_count, nodes, chain, drv, calls, shutdown_requested>>

\* Lines 697-721: the mined block is linked and kept for the broadcast, or freed.
W_Commit(n) ==
    /\ worker[n].pc = "mined"
    /\ IF commit_ok(chain[n], worker[n].blk)
       THEN /\ chain' = [chain EXCEPT ![n] = commit_mined(chain[n], worker[n].blk, clock)]
            /\ worker' = [worker EXCEPT ![n].pc = "bcast"]
       ELSE /\ chain' = chain
            /\ worker' = [worker EXCEPT ![n] = AfterMining(n)]
    /\ UNCHANGED <<clock, node_count, nodes, drv, calls, shutdown_requested>>

\* What a read of the worker's block yields: the block; or, when
\* synchronize_blockchain freed it, what the memory holds by then: the block
\* still, one of the clones allocated right after it was freed, or bytes
\* that fail the proof-of-work test.
Garbage == [NoBlock EXCEPT !.merkle_root = Uninit, !.index = 0]

BlockRead(n) ==
    IF worker[n].dangling
    THEN {worker[n].blk, Garbage} \cup {chain[n].blocks[k] : k \in 1..Len(chain[n].blocks)}
    ELSE {worker[n].blk}

W_Bcast(n) ==
    /\ worker[n].pc = "bcast"
    /\ \E b \in BlockRead(n) : chain' = broadcast_block(chain, b, n, clock)
    /\ worker' = [worker EXCEPT ![n] = AfterMining(n)]
    /\ UNCHANGED <<clock, node_count, nodes, drv, calls, shutdown_requested>>

\* tamper_with_blockchain: nothing unless the node is malicious and active.
tamper_with_blockchain(ch, n) ==
    IF ~nodes[n].is_malicious \/ ~nodes[n].is_active THEN ch
    ELSE [ch EXCEPT ![n] = tamper_chain(ch[n])]

\* Lines 729-731, the draw below 5: the node tampers.
W_Tamper(n) ==
    /\ worker[n].pc = "tamper"
    /\ chain' = tamper_with_blockchain(chain, n)
    /\ worker' = [worker EXCEPT ![n].pc = "loop"]
    /\ UNCHANGED <<clock, node_count, nodes, drv, calls, shutdown_requested>>

\* Lines 729-731, any other draw.
W_NoTamper(n) ==
    /\ worker[n].pc = "tamper"
    /\ worker' = [worker EXCEPT ![n].pc = "loop"]
    /\ UNCHANGED <<clock, node_count, nodes, chain, drv, calls, shutdown_requested>>

WorkerLoop(L) == \E n \in Registered : W_Loop(L, n)
WorkerMine(L) == \E n \in Registered : W_Mine(L, n)
WorkerCommit == \E n \in Registered : W_Commit(n)
WorkerBcast == \E n \in Registered : W_Bcast(n)
WorkerTamper == \E n \in Registered : W_Tamper(n)
WorkerNoTamper == \E n \in Registered : W_NoTamper(n)

Next ==
    \/ Tick(Limits)
    \/ CreateNode(Limits)
    \/ AddEvent(Limits)
    \/ DrvMine(Limits)
    \/ DrvLink
    \/ DrvRetry
    \/ Confirm(Limits)
    \/ StopNode(Limits)
    \/ DrvJoin
    \/ StartNode(Limits)
    \/ DrvSync
    \/ Rebroadcast(Limits)
    \/ Shutdown
    \/ WorkerLoop(Limits)
    \/ WorkerMine(Limits)
    \/ WorkerCommit
    \/ WorkerBcast
    \/ WorkerTamper
    \/ WorkerNoTamper

Spec == Init /\ [][Next]_vars

\* ------------------------------------------------- the fork specification
\* Two honest nodes created in the same second, as test_nominal_operations
\* creates them: node 0 a miner, node 1 a validator.  The driver appends
\* transactions and confirms blocks; nothing is stopped, and the miner's lucky
\* exit is not drawn.
ForkLimits == [calls |-> ForkCalls, blocks |-> ForkBlocks, types |-> {1},
               lucky |-> {FALSE}, nodes |-> 2]

InitFork ==
    /\ clock = 0
    /\ node_count = 2
    /\ nodes = [i \in Ids |->
                  IF i = 0 THEN [is_mining |-> TRUE, is_malicious |-> FALSE,
                                 is_active |-> TRUE]
                  ELSE IF i = 1 THEN [is_mining |-> FALSE, is_malicious |-> FALSE,
                                      is_active |-> TRUE]
                  ELSE NoNode]
    /\ chain = [i \in Ids |-> IF i < 2 THEN create_blockchain(0) ELSE NoChain]
    /\ worker = [i \in Ids |-> IF i < 2 THEN NewWorker ELSE NoWorker]
    /\ drv = DrvIdle
    /\ calls = 0
    /\ shutdown_requested = FALSE

NextFork ==
    \/ AddEvent(ForkLimits)
    \/ DrvMine(ForkLimits)
    \/ DrvLink
    \/ DrvRetry
    \/ Confirm(ForkLimits)
    \/ WorkerLoop(ForkLimits)
    \/ WorkerMine(ForkLimits)
    \/ WorkerCommit
    \/ WorkerBcast

SpecFork == InitFork /\ [][NextFork]_vars

\* check_consensus: (float)nodes_with_block / total_active >= 0.51; with no
\* active node the quotient is NaN and the comparison false.
ThresholdPercent == 51

\* ----------------------------------------------- the restart specification
\* test_availability on the two nodes of the fork specification: with a node
\* stopped, the driver reads an active node's block_count into
\* chain_length_before and calls start_node on the stopped node (here up to
\* start_node's unlock; DrvSync is the rest of the call).
ReadAndStart(L) ==
    /\ drv.pc = "idle"
    /\ calls < L.calls
    /\ \E n \in Registered : \E q \in Registered \ {n} :
         /\ ~nodes[n].is_active
         /\ nodes[q].is_active
         /\ nodes' = [nodes EXCEPT ![n].is_active = TRUE]
         /\ worker' = [worker EXCEPT ![n] = NewWorker]
         /\ drv' = [drv EXCEPT !.pc = "sync", !.node = n,
                                !.chain_length_before = chain[q].block_count]
    /\ calls' = calls + 1
    /\ UNCHANGED <<clock, node_count, chain, shutdown_requested>>

NextRestart ==
    \/ NextFork
    \/ StopNode(ForkLimits)
    \/ DrvJoin
    \/ ReadAndStart(ForkLimits)
    \/ DrvSync

SpecRestart == InitFork /\ [][NextRestart]_vars

\* ----------------------------------------------- the nominal specification
\* test_nominal_operations: three honest nodes created in the same second,
\* two miners and a validator; the driver appends a transaction through node
\* 0, sleeps a second and appends a transaction through node 1.  The miner's
\* lucky exit is not drawn.
NominalLimits == [calls |-> 3, blocks |-> MaxBlocks, types |-> {1},
                  lucky |-> {FALSE}, nodes |-> 3]

InitNominal ==
    /\ clock = 0
    /\ node_count = 3
    /\ nodes = [i \in Ids |->
                  IF i < 3 THEN [is_mining |-> i < 2, is_malicious |-> FALSE,
                                 is_active |-> TRUE]
                  ELSE NoNode]
    /\ chain = [i \in Ids |-> IF i < 3 THEN create_blockchain(0) ELSE NoChain]
    /\ worker = [i \in Ids |-> IF i < 3 THEN NewWorker ELSE NoWorker]
    /\ drv = DrvIdle
    /\ calls = 0
    /\ shutdown_requested = FALSE

NominalDriver ==
    \/ calls = 0 /\ \E d \in Payloads : add_blockchain_event(NominalLimits, 0, 1, d)
    \/ calls = 1 /\ Tick(NominalLimits)
    \/ calls = 2 /\ \E d \in Payloads : add_blockchain_event(NominalLimits, 1, 1, d)

NextNominal ==
    \/ NominalDriver
    \/ WorkerLoop(NominalLimits)
    \/ WorkerMine(NominalLimits)
    \/ WorkerCommit
    \/ WorkerBcast

SpecNominal == InitNominal /\ [][NextNominal]_vars

\* ------------------------------------------------ the events specification
\* add_event applied again and again to one block that create_block made,
\* with MAX_EVENTS = EventsMax, while time passes.
InitEvents ==
    /\ clock = 0
    /\ node_count = 0
    /\ nodes = [i \in Ids |-> NoNode]
    /\ chain = [i \in Ids |-> NoChain]
    /\ worker = [i \in Ids |-> NoWorker]
    /\ drv = [DrvIdle EXCEPT !.blk = create_block(1, ZeroHash, 0)]
    /\ calls = 0
    /\ shutdown_requested = FALSE

EventAppend ==
    /\ \E t \in EventTypes, d \in Payloads :
          drv' = [drv EXCEPT !.blk = add_event_upto(EventsMax, drv.blk, t, d, clock).blk]
    /\ UNCHANGED <<clock, node_count, nodes, chain, worker, calls, shutdown_requested>>

NextEvents ==
    \/ EventAppend
    \/ Tick(Limits)

SpecEvents == InitEvents /\ [][NextEvents]_vars

\* ---------------------------------------------- the shutdown specification
\* An honest and a malicious miner created in the same second; the driver
\* appends one transaction at most and then, as main does, requests the
\* shutdown.  Every thread that can take a step is scheduled again and again.
ShutdownLimits == [calls |-> 1, blocks |-> MaxBlocks, types |-> EventTypes,
                   lucky |-> BOOLEAN, nodes |-> 2]

InitShutdown ==
    /\ clock = 0
    /\ node_count = 2
    /\ nodes = [i \in Ids |->
                  IF i < 2 THEN [is_mining |-> TRUE, is_malicious |-> (i = 1),
                                 is_active |-> TRUE]
                  ELSE NoNode]
    /\ chain = [i \in Ids |-> IF i < 2 THEN create_blockchain(0) ELSE NoChain]
    /\ worker = [i \in Ids |-> IF i < 2 THEN NewWorker ELSE NoWorker]
    /\ drv = DrvIdle
    /\ calls = 0
    /\ shutdown_requested = FALSE

NextShutdown ==
    \/ AddEvent(ShutdownLimits)
    \/ Shutdown
    \/ WorkerLoop(ShutdownLimits)
    \/ WorkerMine(ShutdownLimits)
    \/ WorkerCommit
    \/ WorkerBcast
    \/ WorkerTamper
    \/ WorkerNoTamper

\* One step of node n's thread outside mine_block.
node_thread(L, n) ==
    \/ W_Loop(L, n)
    \/ W_Commit(n)
    \/ W_Bcast(n)
    \/ W_Tamper(n)
    \/ W_NoTamper(n)

\* WF_vars(W_Mine(L, n)) written out: a worker in mine_block can always take
\* its next step.
MiningFair(L, n) ==
    \/ []<>(worker[n].pc # "mine")
    \/ []<><<W_Mine(L, n)>>_vars

SpecShutdown ==
    /\ InitShutdown
    /\ [][NextShutdown]_vars
    /\ \A n \in Ids : WF_vars(node_thread(ShutdownLimits, n))
    /\ \A n \in Ids : MiningFair(ShutdownLimits, n)

\* ---------------------------------------------- the progress specification
\* One honest miner and a driver that appends transactions; nothing is shut
\* down or stopped, and every thread that can take a step is scheduled again
\* and again.
ProgressLimits == [calls |-> ProgressCalls, blocks |-> MaxBlocks, types |-> {1},
                   lucky |-> BOOLEAN, nodes |-> 1]

InitProgress ==
    /\ clock = 0
    /\ node_count = 1
    /\ nodes = [i \in Ids |->
                  IF i = 0 THEN [is_mining |-> TRUE, is_malicious |-> FALSE,
                                 is_active |-> TRUE]
                  ELSE NoNode]
    /\ chain = [i \in Ids |-> IF i = 0 THEN create_blockchain(0) ELSE NoChain]
    /\ worker = [i \in Ids |-> IF i = 0 THEN NewWorker ELSE NoWorker]
    /\ drv = DrvIdle
    /\ calls = 0
    /\ shutdown_requested = FALSE

NextProgress ==
    \/ Tick(ProgressLimits)
    \/ AddEvent(ProgressLimits)
    \/ DrvMine(ProgressLimits)
    \/ DrvLink
    \/ DrvRetry
    \/ WorkerLoop(ProgressLimits)
    \/ WorkerMine(ProgressLimits)
    \/ WorkerCommit
    \/ WorkerBcast

\* WF_vars(DrvMine(L)) written out.
DriverMiningFair(L) ==
    \/ []<>(drv.pc # "bf_mine")
    \/ []<><<DrvMine(L)>>_vars

SpecProgress ==
    /\ InitProgress
    /\ [][NextProgress]_vars
    /\ \A n \in Ids : WF_vars(node_thread(ProgressLimits, n))
    /\ \A n \in Ids : MiningFair(ProgressLimits, n)
    /\ WF_vars(DrvLink \/ DrvRetry)
    /\ DriverMiningFair(ProgressLimits)

\* ------------------------------------------------- the locks specification
\* The same threads, the workers and the driver, seen through their lock and
\* unlock calls only.  A thread is [pc, script, held]: script is the sequence
\* of calls it has still to make in the function it runs, held the locks it
\* holds.  What the data decides (who is active when the network lock is
\* taken, whether mining succeeds, whether the tip is still the parent) is
\* chosen freely when the function is entered.
LockNodes == 2
\* nodes_lock; the lock of nodes[i].chain is i.
NetLock == -1
NoLock == -2

Acq(l) == [op |-> "acq", l |-> l]
Rel(l) == [op |-> "rel", l |-> l]

\* lock(chain i) ... unlock(chain i) with no lock call in between.
section(i) == <<Acq(i), Rel(i)>>

RECURSIVE visits(_, _)
\* for (i = 0; i < node_count; i++) if (i in V) { lock(chain i); unlock(chain i); }
visits(V, i) ==
    IF i >= node_count THEN <<>>
    ELSE (IF i \in V THEN section(i) ELSE <<>>) \o visits(V, i + 1)

broadcast_block_locks(sender_id, V) ==
    <<Acq(NetLock)>> \o visits(V \ {sender_id}, 0) \o <<Rel(NetLock)>>

check_consensus_locks(V) ==
    <<Acq(NetLock)>> \o visits(V, 0) \o <<Rel(NetLock)>>

\* best is the node whose chain is copied, -1 when there is none.
synchronize_blockchain_locks(n, V, best) ==
    <<Acq(NetLock)>> \o visits(V \ {n}, 0)
        \o (IF best = -1 THEN <<>> ELSE <<Acq(best), Acq(n), Rel(n), Rel(best)>>)
        \o <<Rel(NetLock)>>

\* A worker that broadcasts its block before it unlocks its chain.
node_thread_locks_broadcast_locked(n, outcome, V, tamper) ==
    section(n)
        \o (CASE outcome = "won"  -> <<Acq(n)>> \o broadcast_block_locks(n, V) \o <<Rel(n)>>
              [] outcome = "lost" -> section(n)
              [] OTHER            -> <<>>)
        \o (IF tamper THEN section(n) ELSE <<>>)

\* One iteration of node_thread's loop for a mining node: the clone; then,
\* when mining succeeded with the node active, the commit test, followed by
\* the broadcast when the block was linked; then tamper_with_blockchain.
node_thread_locks(n, outcome, V, tamper) ==
    section(n)
        \o (CASE outcome = "won"  -> section(n) \o broadcast_block_locks(n, V)
              [] outcome = "lost" -> section(n)
              [] OTHER            -> <<>>)
        \o (IF tamper THEN section(n) ELSE <<>>)

\* full: add_event returned 0; mined: mine_block(old_block) returned true.
add_blockchain_event_locks(n, full, mined) ==
    section(n)
        \o (IF full THEN (IF mined THEN section(n) ELSE <<>>) \o section(n)
            ELSE <<>>)

confirm_block_locks(n) == section(n)

stop_node_locks(n) ==
    <<Acq(NetLock), [op |-> "stop", l |-> n], Rel(NetLock), [op |-> "join", l |-> n]>>

start_node_locks(n, V, best) ==
    IF ~nodes[n].is_active
    THEN <<Acq(NetLock), [op |-> "start", l |-> n], Rel(NetLock)>>
             \o synchronize_blockchain_locks(n, V, best)
    ELSE <<Acq(NetLock), Rel(NetLock)>>

LockThread == [pc |-> "loop", script |-> <<>>, held |-> {}]
LockNoThread == [pc |-> "off", script |-> <<>>, held |-> {}]
LockDrvIdle == [pc |-> "idle", script |-> <<>>, held |-> {}]

\* The threads: the workers by node id, and the driver.
Driver == node_count
Threads == 0..node_count
Held(t) == IF t = Driver THEN drv.held ELSE worker[t].held
Script(t) == IF t = Driver THEN drv.script ELSE worker[t].script
\* The lock thread t is about to request, NoLock when its next call is none.
Want(t) ==
    IF Script(t) # <<>> /\ Head(Script(t)).op = "acq"
    THEN Head(Script(t)).l ELSE NoLock
LockFree(l) == \A t \in Threads : l \notin Held(t)

InitLocks ==
    /\ clock = 0
    /\ node_count = LockNodes
    /\ nodes = [i \in Ids |->
                  IF i < LockNodes
                  THEN [is_mining |-> TRUE, is_malicious |-> (i = LockNodes - 1),
                        is_active |-> TRUE]
                  ELSE NoNode]
    /\ chain = [i \in Ids |-> NoChain]
    /\ worker = [i \in Ids |-> IF i < LockNodes THEN LockThread ELSE LockNoThread]
    /\ drv = LockDrvIdle
    /\ calls = 0
    /\ shutdown_requested = FALSE

\* The driver enters one of the functions the tests call.
LkEnter(script) ==
    /\ drv.pc = "idle"
    /\ ~shutdown_requested
    /\ drv' = [pc |-> "run", script |-> script, held |-> {}]
    /\ UNCHANGED <<clock, node_count, nodes, chain, worker, calls, shutdown_requested>>

ActiveNow == {i \in Registered : nodes[i].is_active}

LkAppend ==
    \E n \in Registered, full \in BOOLEAN, mined \in BOOLEAN :
        LkEnter(add_blockchain_event_locks(n, full, mined))

LkConfirm == \E n \in Registered : LkEnter(confirm_block_locks(n))

LkBroadcast == \E s \in Registered : LkEnter(broadcast_block_locks(s, ActiveNow))

LkConsensus == LkEnter(check_consensus_locks(ActiveNow))

LkStop == \E n \in Registered : nodes[n].is_active /\ LkEnter(stop_node_locks(n))

LkStart ==
    \E n \in Registered :
        LET V == ActiveNow \cup {n}
        IN  \E best \in IF V \ {n} = {} THEN {-1} ELSE V \ {n} :
                LkEnter(start_node_locks(n, V, best))

LkShutdown ==
    /\ drv.pc = "idle"
    /\ ~shutdown_requested
    /\ shutdown_requested' = TRUE
    /\ drv' = [drv EXCEPT !.pc = "shutdown"]
    /\ UNCHANGED <<clock, node_count, nodes, chain, worker, calls>>

\* The driver's next call; pthread_mutex_lock returns when the lock is free,
\* pthread_join when the thread has returned.
LkDrvStep ==
    /\ drv.pc = "run"
    /\ LET c == Head(drv.script)
           rest == Tail(drv.script)
           pc2 == IF rest = <<>> THEN "idle" ELSE "run"
       IN  CASE c.op = "acq" ->
                  /\ LockFree(c.l)
                  /\ drv' = [pc |-> pc2, script |-> rest, held |-> drv.held \cup {c.l}]
                  /\ UNCHANGED <<nodes, worker>>
             [] c.op = "rel" ->
                  /\ drv' = [pc |-> pc2, script |-> rest, held |-> drv.held \ {c.l}]
                  /\ UNCHANGED <<nodes, worker>>
             [] c.op = "stop" ->
                  /\ nodes' = [nodes EXCEPT ![c.l].is_active = FALSE]
                  /\ drv' = [drv EXCEPT !.pc = pc2, !.script = rest]
                  /\ UNCHANGED worker
             [] c.op = "start" ->
                  /\ nodes' = [nodes EXCEPT ![c.l].is_active = TRUE]
                  /\ worker' = [worker EXCEPT ![c.l] = LockThread]
                  /\ drv' = [drv EXCEPT !.pc = pc2, !.script = rest]
             [] OTHER ->
                  /\ worker[c.l].pc = "done"
                  /\ worker' = [worker EXCEPT ![c.l] = LockNoThread]
                  /\ drv' = [drv EXCEPT !.pc = pc2, !.script = rest]
                  /\ UNCHANGED nodes
    /\ UNCHANGED <<clock, node_count, chain, calls, shutdown_requested>>

\* The loop test of node_thread, and the iteration that follows it.
LkWorkerLoop ==
    \E n \in Registered :
        /\ worker[n].pc = "loop"
        /\ IF shutdown_requested \/ ~nodes[n].is_active
           THEN worker' = [worker EXCEPT ![n].pc = "done"]
           ELSE \E outcome \in {"none", "lost", "won"}, V \in SUBSET Registered,
                   tamper \in {FALSE, nodes[n].is_malicious} :
                    worker' = [worker EXCEPT ![n] =
                        [pc |-> "run", held |-> {},
                         script |-> node_thread_locks(n, outcome, V, tamper)]]
        /\ UNCHANGED <<clock, node_count, nodes, chain, drv, calls, shutdown_requested>>

LkWorkerStep ==
    \E n \in Registered :
        /\ worker[n].pc = "run"
        /\ LET c == Head(worker[n].script)
               rest == Tail(worker[n].script)
               pc2 == IF rest = <<>> THEN "loop" ELSE "run"
           IN  IF c.op = "acq"
               THEN /\ LockFree(c.l)
                    /\ worker' = [worker EXCEPT ![n] =
                          [pc |-> pc2, script |-> rest, held |-> worker[n].held \cup {c.l}]]
               ELSE worker' = [worker EXCEPT ![n] =
                          [pc |-> pc2, script |-> rest, held |-> worker[n].held \ {c.l}]]
        /\ UNCHANGED <<clock, node_count, nodes, chain, drv, calls, shutdown_requested>>

NextLocks ==
    \/ LkAppend
    \/ LkConfirm
    \/ LkBroadcast
    \/ LkConsensus
    \/ LkStop
    \/ LkStart
    \/ LkShutdown
    \/ LkDrvStep
    \/ LkWorkerLoop
    \/ LkWorkerStep

SpecLocks == InitLocks /\ [][NextLocks]_vars

\* check_consensus's loop over nodes[i], i < node_count, from i on:
\* <<total_active, nodes_with_block>>.
RECURSIVE consensus_scan(_, _, _, _)
consensus_scan(i, total_active, nodes_with_block, block) ==
    IF i >= node_count THEN <<total_active, nodes_with_block>>
    ELSE IF nodes[i].is_active
    THEN consensus_scan(i + 1, total_active + 1,
                        IF has_block(chain[i], block)
                        THEN nodes_with_block + 1 ELSE nodes_with_block,
                        block)
    ELSE consensus_scan(i + 1, total_active, nodes_with_block, block)

\* A consensus query that counts the inactive nodes too.
check_consensus_all_registered(block) ==
    LET total == node_count
        with  == Cardinality({i \in Registered : has_block(chain[i], block)})
    IN  total > 0 /\ 100 * with >= ThresholdPercent * total

check_consensus(block) ==
    LET r == consensus_scan(0, 0, 0, block)
        total_active == r[1]
        nodes_with_block == r[2]
    IN  /\ total_active # 0
        /\ 100 * nodes_with_block >= ThresholdPercent * total_active

\* ------------------------------------------------------------- the claims
Hashes(c) == [k \in 1..Len(c.blocks) |-> c.blocks[k].hash]

IsPrefix(a, b) ==
    /\ Len(a) <= Len(b)
    /\ \A k \in 1..Len(a) : a[k] = b[k]

\* A step in which worker s runs broadcast_block.
WorkerBroadcastStep(s) ==
    /\ worker[s].pc = "bcast"
    /\ worker'[s].pc # "bcast"

\* A step in which the driver runs broadcast_block on block pos of node s.
DriverBroadcastStep(s, pos) ==
    /\ drv.pc = "idle" /\ drv' = drv
    /\ calls' = calls + 1
    /\ UNCHANGED <<clock, node_count, nodes, worker, shutdown_requested>>
    /\ pos \in 2..Len(chain[s].blocks)
    /\ chain' = broadcast_block(chain, chain[s].blocks[pos], s, clock)

BroadcastStep ==
    \/ \E s \in Registered : WorkerBroadcastStep(s)
    \/ \E s \in Registered : \E pos \in DOMAIN chain[s].blocks :
          DriverBroadcastStep(s, pos)

\* C1: in every chain every block after genesis names the hash of the block
\* before it as its previous_hash.
C1_HashLinkage ==
    \A n \in Registered : \A k \in 2..Len(chain[n].blocks) :
        chain[n].blocks[k].previous_hash = chain[n].blocks[k - 1].hash

\* C3: with the chain lock free, a walk from genesis over next visits exactly
\* block_count blocks and ends at last_block.
C3_CountConsistency ==
    \A n \in Registered :
        /\ Len(chain[n].blocks) = chain[n].block_count
        /\ chain[n].last = Len(chain[n].blocks)

\* C4: except across a synchronize of the node, the hashes from genesis to tip
\* before a step are a prefix of the hashes after it.
C4_AppendOnly ==
    [][\A n \in Registered :
          \/ (drv.pc = "sync" /\ drv.node = n /\ drv'.pc = "idle")
          \/ IsPrefix(Hashes(chain[n]), Hashes(chain'[n]))]_vars

\* C5: with the chain lock free, the staging block has index = block_count and
\* previous_hash = the tip's hash.
C5_StagingConsistent ==
    \A n \in Registered :
        /\ chain[n].mining.index = chain[n].block_count
        /\ chain[n].mining.previous_hash = last_block(chain[n]).hash

\* C7: when a broadcast adopts a block at a receiver, the parent found by hash
\* is the receiver's tip and has no successor, so no linked block is dropped.
C7_AdoptAtTipOnly ==
    [][BroadcastStep =>
        \A p \in Registered :
            chain'[p] # chain[p] =>
                /\ chain'[p].last - 1 = chain[p].last
                /\ chain[p].last = Len(chain[p].blocks)
                /\ IsPrefix(Hashes(chain[p]), Hashes(chain'[p]))]_vars

\* The conditions under which a receiver with chain c is to adopt block B.
Adoptable(c, B) ==
    /\ \A i \in 1..DIFFICULTY : B.hash.digits[i] = 0
    /\ \A i \in 1..Len(B.events) : validate_event(B.events[i])
    /\ \E k \in 1..Len(c.blocks) : c.blocks[k].hash = B.previous_hash
    /\ B.index + 1 > c.block_count

\* Across the step, receiver p has taken a copy of B as the successor of a
\* block C with C.hash = B.previous_hash.
AdoptedAt(p, B) ==
    /\ \E k \in 1..Len(chain[p].blocks) :
          /\ chain[p].blocks[k].hash = B.previous_hash
          /\ Len(chain'[p].blocks) = k + 1
          /\ chain'[p].blocks[k] = chain[p].blocks[k]
          /\ chain'[p].blocks[k + 1] = B
          /\ chain'[p].last = k + 1
    /\ chain'[p].block_count = B.index + 1
    /\ chain'[p].mining.events = <<>>
    /\ chain'[p].mining.nonce = 0
    /\ chain'[p].mining.index = chain'[p].block_count
    /\ chain'[p].mining.previous_hash = B.hash

BroadcastAdopts(B, s) ==
    /\ \A p \in Registered \ {s} :
          (nodes[p].is_active /\ Adoptable(chain[p], B)) => AdoptedAt(p, B)
    /\ chain'[s] = chain[s]
    /\ \A n \in Ids : ~nodes[n].is_active => chain'[n] = chain[n]
    /\ nodes' = nodes

BroadcastDrops(B, s) ==
    \A p \in Registered \ {s} :
        (nodes[p].is_active /\ ~Adoptable(chain[p], B)) => chain'[p] = chain[p]

\* A block the tamper routine has changed: the first event carries the fraud
\* payload and the stored merkle_root is not the root of the events.
Tampered(b) ==
    /\ Len(b.events) > 0
    /\ b.events[1].data = FraudPayload
    /\ calculate_merkle_root(b) # b.merkle_root

\* C2 (as stated): every linked block after genesis has a hash with DIFFICULTY
\* leading zeros.
C2_ProofOfWorkAll ==
    \A n \in Registered : \A k \in 2..Len(chain[n].blocks) :
        is_valid_proof(chain[n].blocks[k], DIFFICULTY)

\* C2 (amended): every linked block after genesis has a hash with DIFFICULTY
\* leading zeros, unless it was linked unmined by confirm_block (nonce 0) or
\* returned by mine_block's lucky exit (nonce a positive multiple of 10).
C2_ProofOfWorkOrExempt ==
    \A n \in Registered : \A k \in 2..Len(chain[n].blocks) :
        \/ is_valid_proof(chain[n].blocks[k], DIFFICULTY)
        \/ chain[n].blocks[k].nonce % YieldEvery = 0

C2_Witness ==
    \E n \in Registered : \E k \in 2..Len(chain[n].blocks) :
        /\ ~is_valid_proof(chain[n].blocks[k], DIFFICULTY)
        /\ chain[n].blocks[k].nonce > 0
        /\ chain[n].blocks[k].nonce % YieldEvery = 0

\* C6: a broadcast of B by S makes every active peer whose chain holds B's
\* parent, and which B advances, take a copy of B as the parent's successor
\* and tip, with block_count = B.index + 1 and a new empty staging block on
\* B; the sender and the inactive nodes are not modified.
C6_BroadcastAdoption ==
    [][/\ \A s \in Registered :
             WorkerBroadcastStep(s) => \E B \in BlockRead(s) : BroadcastAdopts(B, s)
       /\ \A s \in Registered : \A pos \in DOMAIN chain[s].blocks :
             DriverBroadcastStep(s, pos) => BroadcastAdopts(chain[s].blocks[pos], s)]_vars

C6_Witness ==
    /\ calls = 0
    /\ \E p \in Registered : \E s \in Registered \ {p} :
          /\ ~nodes[p].is_mining
          /\ chain[p].block_count = 2
          /\ chain[p].mining.index = 2
          /\ last_block(chain[p]) = last_block(chain[s])
          /\ worker[s].pc = "loop"

\* C8: a broadcast of B leaves unchanged the chain of every peer it visits at
\* which B fails proof of work or event validation, or has no parent, or does
\* not advance block_count.
C8_InvalidDropped ==
    [][/\ \A s \in Registered :
             WorkerBroadcastStep(s) => \E B \in BlockRead(s) : BroadcastDrops(B, s)
       /\ \A s \in Registered : \A pos \in DOMAIN chain[s].blocks :
             DriverBroadcastStep(s, pos) => BroadcastDrops(chain[s].blocks[pos], s)]_vars

C8_Witness ==
    /\ calls <= 1
    /\ node_count = 2
    /\ chain[0].blocks[1] # chain[1].blocks[1]
    /\ nodes[0].is_active
    /\ chain[0].block_count = 1
    /\ ~nodes[1].is_malicious
    /\ chain[1].block_count = 2
    /\ worker[1].pc = "loop"

\* C9: no peer adopts a tampered block that a broadcast offers to it.
C9_TamperedNeverAdopted ==
    [][/\ \A s \in Registered :
             \A B \in BlockRead(s) :
                 (/\ WorkerBroadcastStep(s)
                  /\ Tampered(B)
                  /\ chain' = broadcast_block(chain, B, s, clock)) =>
                     \A p \in Registered \ {s} : chain'[p] = chain[p]
       /\ \A s \in Registered : \A pos \in DOMAIN chain[s].blocks :
             (DriverBroadcastStep(s, pos) /\ Tampered(chain[s].blocks[pos])) =>
                 \A p \in Registered \ {s} : chain'[p] = chain[p]]_vars

\* C10: whenever the driver can call it, check_consensus is false of the block
\* a malicious node has tampered.
C10_TamperedNoConsensus ==
    \A n \in Registered :
        (/\ drv.pc = "idle"
         /\ nodes[n].is_malicious
         /\ Len(chain[n].blocks) >= 2
         /\ Tampered(chain[n].blocks[2])) => ~check_consensus(chain[n].blocks[2])

\* A step in which worker n makes its tamper draw.
TamperStep(n) ==
    /\ worker[n].pc = "tamper"
    /\ worker'[n].pc # "tamper"

\* b2 is b1 but for the data and the digest of its first event.
SameButFirstEvent(b1, b2) ==
    /\ b2.index = b1.index /\ b2.timestamp = b1.timestamp
    /\ b2.previous_hash = b1.previous_hash /\ b2.nonce = b1.nonce
    /\ b2.merkle_root = b1.merkle_root /\ b2.hash = b1.hash
    /\ b2.event_capacity = b1.event_capacity
    /\ Len(b2.events) = Len(b1.events)
    /\ \A i \in 2..Len(b1.events) : b2.events[i] = b1.events[i]
    /\ Len(b1.events) > 0 =>
          /\ b2.events[1].type = b1.events[1].type
          /\ b2.events[1].timestamp = b1.events[1].timestamp
          /\ b2.events[1].is_valid = b1.events[1].is_valid
          /\ b2.events[1] # b1.events[1] => b1.events[1].type = 1

\* C11: a tamper by node n changes at most the data and digest of the first
\* event, of type 1, of the block after genesis in n's own chain; that block's
\* other fields, n's tip, block_count and staging block and every other
\* node's chain are unchanged; on an honest or inactive node nothing changes.
C11_TamperLocal ==
    [][\A n \in Registered : TamperStep(n) =>
          /\ \A m \in Ids \ {n} : chain'[m] = chain[m]
          /\ chain'[n].last = chain[n].last
          /\ chain'[n].block_count = chain[n].block_count
          /\ chain'[n].mining = chain[n].mining
          /\ Len(chain'[n].blocks) = Len(chain[n].blocks)
          /\ \A k \in DOMAIN chain[n].blocks :
                IF k = 2 THEN SameButFirstEvent(chain[n].blocks[k], chain'[n].blocks[k])
                ELSE chain'[n].blocks[k] = chain[n].blocks[k]
          /\ (~nodes[n].is_malicious \/ ~nodes[n].is_active) => chain'[n] = chain[n]]_vars

\* A tampered block at a malicious node while a peer holds the copy it
\* adopted before, untouched.
C11_Witness ==
    \E n \in Registered : \E p \in Registered \ {n} :
        /\ nodes[n].is_malicious
        /\ Len(chain[n].blocks) >= 2 /\ Len(chain[p].blocks) >= 2
        /\ Tampered(chain[n].blocks[2])
        /\ chain[p].blocks[2].hash = chain[n].blocks[2].hash
        /\ ~Tampered(chain[p].blocks[2])
        /\ chain[p].blocks[2].events # chain[n].blocks[2].events

\* The first event carries the fraud payload: the block was tampered, or is
\* a copy of a block that was.
FraudFirst(b) == Len(b.events) > 0 /\ b.events[1].data = FraudPayload

\* C12: every linked block that was not tampered stores the Merkle root of
\* its events (the all-'0' string when it has none) and the digest of its
\* header fields.
C12_DigestConsistent ==
    \A n \in Registered : \A k \in DOMAIN chain[n].blocks :
        LET b == chain[n].blocks[k]
        IN  ~FraudFirst(b) =>
               /\ b.merkle_root = calculate_merkle_root(b)
               /\ Len(b.events) = 0 => b.merkle_root = ZeroHash
               /\ b.hash = hash_block(b)

\* A block linked after the miner's lucky exit, with its digest.
C12_Witness ==
    \E n \in Registered : \E k \in 2..Len(chain[n].blocks) :
        /\ chain[n].blocks[k].nonce >= YieldEvery
        /\ chain[n].blocks[k].hash = hash_block(chain[n].blocks[k])
        /\ worker[n].pc = "loop"

\* The blocks a consensus query can be made on: those linked in some chain.
LinkedBlocks ==
    UNION {{chain[n].blocks[k] : k \in DOMAIN chain[n].blocks} : n \in Registered}

\* C13: check_consensus(B) is true iff A > 0 and W / A >= 0.51, A the number
\* of active nodes and W the number of active nodes whose chain has a block
\* with B's hash; inactive nodes count in neither.
C13_ConsensusQuery ==
    \A B \in LinkedBlocks :
        LET Active == {i \in Registered : nodes[i].is_active}
            A == Cardinality(Active)
            W == Cardinality({i \in Active :
                     \E k \in DOMAIN chain[i].blocks : chain[i].blocks[k].hash = B.hash})
        IN  check_consensus(B) <=> (A > 0 /\ 100 * W >= 51 * A)

\* The only active node holds a block that an inactive node does not hold.
C13_Witness ==
    /\ drv.pc = "idle"
    /\ \E m \in Registered : \E n \in Registered \ {m} :
          /\ nodes[m].is_active /\ ~nodes[n].is_active
          /\ \E k \in 2..Len(chain[m].blocks) :
                /\ ~has_block(chain[n], chain[m].blocks[k])
                /\ check_consensus(chain[m].blocks[k])

\* The step in which start_node's synchronize_blockchain runs for node n.
SyncStep(n) ==
    /\ drv.pc = "sync"
    /\ drv.node = n
    /\ drv'.pc = "idle"

\* C14: synchronize leaves node N's chain unchanged when N has no active
\* peer; otherwise N gets a block-for-block copy of the chain of an active
\* peer M of greatest block_count, with N.block_count = M.block_count and a
\* new empty staging block on the copied tip, and M's chain is unchanged.
C14_Synchronize ==
    [][\A N \in Registered : SyncStep(N) =>
          LET Peers == {i \in Registered \ {N} : nodes[i].is_active}
          IN  IF Peers = {} THEN chain'[N] = chain[N]
              ELSE \E M \in Peers :
                     /\ \A j \in Peers : chain[j].block_count <= chain[M].block_count
                     /\ chain'[N].blocks = chain[M].blocks
                     /\ chain'[N].last = Len(chain[M].blocks)
                     /\ chain'[N].block_count = chain[M].block_count
                     /\ chain'[N].mining.events = <<>>
                     /\ chain'[N].mining.index = chain'[N].block_count
                     /\ chain'[N].mining.previous_hash = last_block(chain'[N]).hash
                     /\ chain'[M] = chain[M]]_vars

\* C16: when start_node has synchronized the restarted node N, N's block_count
\* is at least the block_count an active peer had before the restart.
C16_RecoveryAfterDowntime ==
    [][\A N \in Registered :
          (SyncStep(N) /\ drv.chain_length_before > 0) =>
              chain'[N].block_count >= drv.chain_length_before]_vars

\* C15: no step but the synchronize of a node makes the node's block_count
\* smaller.
C15_Monotone ==
    [][\A n \in Registered :
          \/ SyncStep(n)
          \/ chain'[n].block_count >= chain[n].block_count]_vars

\* A validator that no driver call touched and that adopted two blocks.
C15_Witness ==
    /\ calls = 0
    /\ \E p \in Registered :
          /\ ~nodes[p].is_mining
          /\ chain[p].block_count > 2
          /\ chain[p].mining.index = chain[p].block_count

\* C17: once both transactions are appended and mined and no worker holds a
\* block it has yet to link or broadcast, check_consensus is true of node 0's
\* tip.
C17_NominalAgreement ==
    (/\ calls = 3
     /\ drv.pc = "idle"
     /\ \A n \in Registered : worker[n].pc = "loop"
     /\ \A n \in Registered : chain[n].mining.events = <<>>)
        => check_consensus(last_block(chain[0]))

\* C18: a block holds at most E_max events, with event_count <=
\* event_capacity <= E_max; add_event fails exactly when the block holds E_max
\* events, and a failed add_event leaves the block as it was.
C18_BoundedBlocks ==
    LET b == drv.blk
    IN  /\ Len(b.events) <= EventsMax
        /\ Len(b.events) <= b.event_capacity
        /\ b.event_capacity <= EventsMax
        /\ \A t \in EventTypes, d \in Payloads :
              LET r == add_event_upto(EventsMax, b, t, d, clock)
              IN  /\ (~r.ok) <=> (Len(b.events) = EventsMax)
                  /\ ~r.ok => /\ r.blk.events = b.events
                              /\ r.blk.merkle_root = b.merkle_root
                              /\ r.blk.hash = b.hash
                  /\ r.ok => Len(r.blk.events) = Len(b.events) + 1

\* A full block whose buffer was doubled up to the cap.
C18_Witness ==
    /\ Len(drv.blk.events) = EventsMax
    /\ drv.blk.event_capacity = EventsMax
    /\ drv.blk.event_capacity > 2 * INIT_CAPACITY

\* The node's thread has been created and not yet joined.
HasWorker(n) == worker[n].pc # "off"

Stopped(n) ==
    /\ ~nodes[n].is_active
    /\ worker[n].pc = "off"

\* A step of some node's worker.
WorkerStep ==
    /\ worker' # worker
    /\ drv' = drv
    /\ calls' = calls

\* C20: stop_node leaves its join only when the node's worker has returned; a
\* worker whose mining ends while its node is inactive frees the block and
\* neither commits nor broadcasts it; and while a node is stopped no step of a
\* worker and no broadcast changes its chain.
C20_Deactivation ==
    [][/\ (drv.pc = "join" /\ drv'.pc # "join")
            => /\ worker[drv.node].pc = "done"
               /\ worker'[drv.node].pc = "off"
       /\ \A n \in Registered :
            (worker[n].pc = "mine" /\ ~nodes[n].is_active /\ worker'[n] # worker[n])
                => /\ worker'[n].pc \in {"mine", "loop", "tamper"}
                   /\ chain' = chain
       /\ \A n \in Registered :
            (Stopped(n) /\ (WorkerStep \/ BroadcastStep))
                => chain'[n] = chain[n]
      ]_vars

\* Node n is stopped at genesis, stop_node being the driver's only call, while
\* the worker of an honest peer with the same genesis has mined, linked and
\* broadcast the block that follows it.
C20_Witness ==
    \E n \in Registered : \E s \in Registered :
        /\ Stopped(n)
        /\ drv.pc = "idle" /\ calls = 1
        /\ nodes[s].is_active /\ ~nodes[s].is_malicious
        /\ worker[s].pc = "loop"
        /\ chain[n].block_count = 1 /\ Len(chain[n].blocks) = 1
        /\ chain[s].block_count = 2 /\ Len(chain[s].blocks) = 2
        /\ chain[s].blocks[1] = chain[n].blocks[1]
        /\ chain[s].blocks[2].previous_hash = chain[n].blocks[1].hash
        /\ is_valid_proof(chain[s].blocks[2], DIFFICULTY)

\* C21: with the chain lock free, the staging block of a chain is none of the
\* blocks a walk from genesis over next visits, the tip included.
C21_StagingNotLinked ==
    \A n \in Registered : \A k \in 1..Len(chain[n].blocks) :
        chain[n].mining_at # k

\* The only node's tip was linked by confirm_block (it carries no proof of
\* work) and a new staging block follows it.
C21_Witness ==
    /\ node_count = 1
    /\ drv.pc = "idle"
    /\ Len(chain[0].blocks) = 2
    /\ chain[0].last = 2
    /\ ~is_valid_proof(chain[0].blocks[2], DIFFICULTY)
    /\ chain[0].blocks[2].events # <<>>
    /\ chain[0].mining.previous_hash = chain[0].blocks[2].hash
    /\ chain[0].mining.index = 2

\* A step in which node n's worker, holding the chain lock again after
\* mining, links or frees its block.
WorkerCommitStep(n) ==
    /\ worker[n].pc = "mined"
    /\ worker'[n].pc # "mined"

\* A step in which add_blockchain_event, holding the chain lock again after
\* mining, links or frees the detached block.
DriverLinkStep ==
    /\ drv.pc = "bf_link"
    /\ drv'.pc # "bf_link"

\* The commit rule between the chain c before the step, the chain d after it
\* and the mined block cand.
CommitRule(c, d, cand) ==
    IF last_block(c).hash = cand.previous_hash
    THEN /\ d.blocks = Append(SubSeq(c.blocks, 1, c.last), cand)
         /\ d.last = c.last + 1
         /\ last_block(d) = cand
         /\ d.block_count = c.block_count + 1
         /\ \A k \in 1..Len(c.blocks) :
               /\ c.blocks[k] # cand
               /\ c.blocks[k].previous_hash # cand.previous_hash
    ELSE /\ d.blocks = c.blocks
         /\ d.last = c.last
         /\ d.block_count = c.block_count

\* C22: a mined block, the worker's clone or the detached full block, becomes
\* the new tip and block_count grows by one iff the tip's hash is its
\* previous_hash when the chain lock is taken again; otherwise the linked
\* blocks, the tip and block_count stay as they are; the block that is linked
\* was not linked before, and no linked block has its previous_hash.
C22_CommitRace ==
    [][/\ \A n \in Registered :
            WorkerCommitStep(n) => CommitRule(chain[n], chain'[n], worker[n].blk)
       /\ DriverLinkStep => CommitRule(chain[drv.node], chain'[drv.node], drv.blk)
      ]_vars

\* The only node's worker linked its clone of the full staging block while
\* add_blockchain_event mined the detached block, which was then freed.
C22_Witness ==
    /\ node_count = 1
    /\ ~shutdown_requested
    /\ drv.pc = "bf_retry" /\ drv.node = 0
    /\ Len(chain[0].blocks) = 2
    /\ chain[0].block_count = 2
    /\ chain[0].blocks[2].events # <<>>
    /\ is_valid_proof(chain[0].blocks[2], DIFFICULTY)
    /\ chain[0].mining.previous_hash = chain[0].blocks[2].hash

\* C23: no thread requests the network lock while it holds a chain lock, and
\* there is no set of threads each of which waits for a lock that a thread of
\* the set holds.
C23_DeadlockFree ==
    /\ \A t \in Threads :
          Want(t) = NetLock => Held(t) \subseteq {NetLock}
    /\ \A S \in SUBSET Threads :
          S # {} => \E t \in S :
                       \/ Want(t) = NoLock
                       \/ \A u \in S : Want(t) \notin Held(u)

\* synchronize_blockchain holds the network lock and two chain locks while a
\* worker waits for one of the two.
C23_Witness ==
    /\ {NetLock, 0, 1} \subseteq drv.held
    /\ \E n \in Registered : Want(n) \in drv.held

\* C24: once shutdown_requested is set, a worker that mines leaves mine_block
\* at its next yield point at the latest, with a block it found or with a
\* failure after which it frees the block and changes no chain; and every
\* worker's loop ends, whether or not a proof of work is found.
C24_ShutdownTerminates ==
    /\ [][\A n \in Registered :
            (shutdown_requested /\ worker[n].pc = "mine" /\ worker'[n] # worker[n])
                => /\ worker'[n].pc \in {"mined", "loop", "tamper"}
                   /\ worker'[n].pc # "mined"
                        => (chain' = chain /\ worker'[n].blk = NoBlock)
         ]_vars
    /\ shutdown_requested ~> (\A n \in Registered : worker[n].pc = "done")

\* The shutdown was requested and every worker has returned, each having
\* linked a block of its own before.
C24_Witness ==
    /\ shutdown_requested
    /\ \A n \in Registered :
         /\ worker[n].pc = "done"
         /\ chain[n].block_count >= 2

\* digest(a || b).
Digest2(a, b) == hash_data(<<CodeOf(a), CodeOf(b)>>, <<a, b>>)

RECURSIVE MerkleReference(_, _, _)
\* root(start, end) = digest(root(start, mid) || root(mid + 1, end)) with
\* mid = (start + end) / 2 rounded down, and root(i, i) the i-th leaf.
MerkleReference(hashes, start, end) ==
    IF start = end THEN hashes[start]
    ELSE LET mid == (start + end) \div 2
         IN  Digest2(MerkleReference(hashes, start, mid),
                     MerkleReference(hashes, mid + 1, end))

\* The digests of a block's events, in order.
EventHashes(b) == [i \in 1..Len(b.events) |-> b.events[i].hash]

\* C25: the Merkle root of a block without events is the string of zeros; of
\* a block with one event, that event's digest; with two events e0 and e1,
\* digest(e0.digest || e1.digest); with three or more, the root of the
\* recursive midpoint reference; and it is what add_event stores.
C25_MerkleBoundaries ==
    LET b == drv.blk
        n == Len(b.events)
        h == EventHashes(b)
    IN  /\ n = 0 => calculate_merkle_root(b) = ZeroHash
        /\ n = 1 => calculate_merkle_root(b) = h[1]
        /\ n = 2 => calculate_merkle_root(b) = Digest2(h[1], h[2])
        /\ n >= 3 => calculate_merkle_root(b) = MerkleReference(h, 1, n)
        /\ n >= 1 => b.merkle_root = calculate_merkle_root(b)

\* A block of three events, not all alike, with its root stored.
C25_Witness ==
    /\ Len(drv.blk.events) = 3
    /\ drv.blk.events[1].hash # drv.blk.events[3].hash
    /\ drv.blk.merkle_root =
          Digest2(Digest2(drv.blk.events[1].hash, drv.blk.events[2].hash),
                  drv.blk.events[3].hash)

RECURSIVE build_tree_twins(_, _, _)
\* The number of nodes build_tree creates at line 145, where right is NULL.
build_tree_twins(hashes, start, end) ==
    IF start >= end THEN 0
    ELSE LET mid == (start + end) \div 2
         IN  build_tree_twins(hashes, start, mid)
                 + build_tree_twins(hashes, mid + 1, end)
                 + (IF build_tree(hashes, mid + 1, end) = Nil THEN 1 ELSE 0)

\* C26: for a block with an odd number of events, three or more, the tree
\* has an internal node whose right child is a copy of its left child.
C26_OddCountTwin ==
    LET n == Len(drv.blk.events)
    IN  (n >= 3 /\ n % 2 = 1)
            => build_tree_twins(EventHashes(drv.blk), 1, n) >= 1

\* The elements of a sequence.
Range(q) == {q[i] : i \in DOMAIN q}

\* The events add_blockchain_event appended to node n's chain c and that no
\* block linked in c holds yet: those of the staging block, and those of the
\* full block the driver d has detached from c and is mining or about to link.
PendingEvents(c, d, n) ==
    Range(c.mining.events)
        \cup (IF d.pc \in {"bf_mine", "bf_link"} /\ d.node = n
              THEN Range(d.blk.events) ELSE {})

\* The events of the blocks linked in c.
LinkedEvents(c) == UNION {Range(c.blocks[k].events) : k \in DOMAIN c.blocks}

\* C27: an event that add_blockchain_event appended to node n's chain stays
\* in n's staging block or in a block linked in n's chain through every step
\* that is not a synchronize of n.
C27_EventDurability ==
    [][\A n \in Registered :
          SyncStep(n) \/
          \A e \in PendingEvents(chain[n], drv, n) :
              e \in PendingEvents(chain'[n], drv', n) \cup LinkedEvents(chain'[n])
      ]_vars

\* C28: the block_count of an active mining node that is not shut down
\* grows again after every state, as long as the bound on the chain's length
\* lets the worker go on.
C28_MiningProgress ==
    \A k \in 1..(MaxBlocks - 1) :
        (chain[0].block_count = k) ~> (chain[0].block_count > k)

\* C29: no block linked in the chain of a node that is not malicious holds
\* an event whose data tamper_with_blockchain has overwritten.
C29_TamperNeverSpreads ==
    \A n \in Registered :
        ~nodes[n].is_malicious =>
            \A e \in LinkedEvents(chain[n]) : e.data # FraudPayload

====
